---- MODULE Spec2Model ----
(***************************************************************************)
(* Model of entrypoint.py (notebook-on-demand): a single-shot job that     *)
(* downloads a notebook, picks a Jupyter kernel, formats the optional JSON *)
(* parameters, runs papermill and reports the outcome to a webhook.        *)
(*                                                                         *)
(* Text values (environment variables, kernel names, JSON documents) are   *)
(* sequences of one-character strings.  An optional value is a record      *)
(* [set, val]; Python's None is the record with set = FALSE.               *)
(***************************************************************************)
EXTENDS Integers, Sequences, FiniteSets, TLC

VARIABLES
    env,              \* os.environ: NOTEBOOK, PARAMETERS, WEBHOOK, WEBHOOK_SECRET, PYTHON_VERSION
    pc,               \* position of main()
    kernels,          \* what KernelSpecManager().get_all_specs() enumerated (keys, in order)
    kernel_name,      \* local of main: result of get_python_kernel()
    formatted_params, \* local of main
    reformatted,      \* format_parameters applied to its own output
    temp_dir,         \* the TemporaryDirectory: "none", "exists", "removed", "leftover"
    files,            \* files present in temp_dir
    param_file,       \* the NamedTemporaryFile of execute_notebook: "none", "exists", "deleted"
    exc,              \* exception in flight in main, if any
    error_msg,        \* local of main's except clause
    printed,          \* lines written to stdout / stderr
    posts,            \* requests.post calls made by send_webhook
    runs,             \* subprocess.run calls made by execute_notebook
    calls,            \* log of the functions main has called, with their outcome
    exit_code         \* -1 while running, then the process exit status

vars == <<env, pc, kernels, kernel_name, formatted_params, reformatted, temp_dir,
          files, param_file, exc, error_msg, printed, posts, runs, calls, exit_code>>

----------------------------------------------------------------------------
(* Bounds *)

MaxKernels == 3    \* installed kernels in a registry of the resolver specification
MaxLen == 3        \* length of the exhaustively enumerated parameter texts

----------------------------------------------------------------------------
(* Optional values and text helpers *)

None == [set |-> FALSE, val |-> <<>>]

Some(v) == [set |-> TRUE, val |-> v]

\* Variant: `is not None` instead of truthiness
Truthy_isset(o) == o.set

\* Python truthiness of an optional string: neither None nor ''
Truthy(o) == o.set /\ o.val # <<>>

\* A message: a fixed format string, the diagnostic of the underlying
\* exception (str(e)) and the text interpolated into it.
Msg(prefix, detail, arg) == [prefix |-> prefix, detail |-> detail, arg |-> arg]

NoMsg == Msg("", "", <<>>)

\* str.lower() on the characters that occur in the model
LowerChar(c) ==
    CASE c = "P" -> "p"
      [] c = "Y" -> "y"
      [] c = "R" -> "r"
      [] c = "C" -> "c"
      [] OTHER -> c

Lower(s) == [i \in 1..Len(s) |-> LowerChar(s[i])]

\* Python's `needle in hay` for strings
Contains(hay, needle) ==
    \E i \in 0..(Len(hay) - Len(needle)) :
        \A j \in 1..Len(needle) : hay[i + j] = needle[j]

\* All sequences over S of length at most n
SeqsUpTo(S, n) == UNION {[1..m -> S] : m \in 0..n}

\* Sequences without repetition (the keys of a dict)
IsInjective(s) == \A i, j \in 1..Len(s) : s[i] = s[j] => i = j

----------------------------------------------------------------------------
(* get_python_version / get_python_kernel *)

PYTHON == <<"p", "y", "t", "h", "o", "n">>

DefaultVersion == <<"3", ".", "1", "1">>

get_python_version(e) ==
    IF e.PYTHON_VERSION.set THEN e.PYTHON_VERSION.val ELSE DefaultVersion

\* Variant: the version is left out of the first search
version_kernels_any(ks, version) ==
    SelectSeq(ks, LAMBDA k : Contains(Lower(k), PYTHON))

\* [k for k, v in kernels.items() if f'python{python_version}' in k.lower()]
version_kernels(ks, version) ==
    SelectSeq(ks, LAMBDA k : Contains(Lower(k), PYTHON \o version))

\* [k for k, v in kernels.items() if 'python' in k.lower()]
python_kernels(ks) ==
    SelectSeq(ks, LAMBDA k : Contains(Lower(k), PYTHON))

\* The registry query itself may raise (queryOk = FALSE); every exception,
\* the inner ValueError included, is re-raised as "Error getting kernel: ...".
get_python_kernel(ks, version, queryOk) ==
    IF ~queryOk
    THEN [ok |-> FALSE, val |-> <<>>,
          err |-> Msg("Error getting kernel: ", "registry error", <<>>)]
    ELSE IF version_kernels(ks, version) # <<>>
    THEN [ok |-> TRUE, val |-> version_kernels(ks, version)[1], err |-> NoMsg]
    ELSE IF python_kernels(ks) = <<>>
    THEN [ok |-> FALSE, val |-> <<>>,
          err |-> Msg("Error getting kernel: ", "No Python kernel found for version ", version)]
    ELSE [ok |-> TRUE, val |-> python_kernels(ks)[1], err |-> NoMsg]

----------------------------------------------------------------------------
(* json.loads, as the standard library's decoder scans a text.  The texts   *)
(* of the model contain no '.', 'e' or 'E' after a digit and no 'u', 'b' or *)
(* 'f' after a backslash, so numbers are integers and the escapes are the   *)
(* ones listed in Unescape.                                                 *)

WS == {" ", "\t", "\n", "\r"}

DigitChars == <<"0", "1", "2", "3", "4", "5", "6", "7", "8", "9">>

Digits == {DigitChars[d] : d \in 1..10}

DigitVal(c) == (CHOOSE d \in 1..10 : DigitChars[d] = c) - 1

\* s[i:i+1], with "" past either end
Ch(s, i) == IF i >= 1 /\ i <= Len(s) THEN s[i] ELSE ""

\* s[i:i+len(w)] == w
HasAt(s, i, w) == /\ i + Len(w) - 1 <= Len(s)
                  /\ \A j \in 1..Len(w) : s[i + j - 1] = w[j]

RECURSIVE SkipWs(_, _)
SkipWs(s, i) == IF Ch(s, i) \in WS THEN SkipWs(s, i + 1) ELSE i

RECURSIVE SkipDigits(_, _)
SkipDigits(s, i) == IF Ch(s, i) \in Digits THEN SkipDigits(s, i + 1) ELSE i

RECURSIVE DigitsToInt(_)
DigitsToInt(d) ==
    IF d = <<>> THEN 0
    ELSE 10 * DigitsToInt(SubSeq(d, 1, Len(d) - 1)) + DigitVal(d[Len(d)])

JFail(diag) == [ok |-> FALSE, val |-> [t |-> "none"], end |-> 0, diag |-> diag]

JOk(v, e) == [ok |-> TRUE, val |-> v, end |-> e, diag |-> ""]

Literals == << <<"n", "u", "l", "l">>, <<"t", "r", "u", "e">>,
               <<"f", "a", "l", "s", "e">> >>

FloatLiterals == << <<"N", "a", "N">>,
                    <<"I", "n", "f", "i", "n", "i", "t", "y">>,
                    <<"-", "I", "n", "f", "i", "n", "i", "t", "y">> >>

\* BACKSLASH of json.decoder
Unescape(c) ==
    CASE c = "\"" -> "\""
      [] c = "\\" -> "\\"
      [] c = "/" -> "/"
      [] c = "n" -> "\n"
      [] c = "r" -> "\r"
      [] c = "t" -> "\t"
      [] OTHER -> ""

\* py_scanstring(s, i) in strict mode; i is the position after the opening quote
RECURSIVE scanstring(_, _, _)
scanstring(s, i, acc) ==
    LET c == Ch(s, i) IN
    IF c = "" THEN JFail("Unterminated string")
    ELSE IF c = "\"" THEN JOk(acc, i + 1)
    ELSE IF c = "\\"
    THEN IF Ch(s, i + 1) = "" THEN JFail("Unterminated string")
         ELSE IF Unescape(Ch(s, i + 1)) = "" THEN JFail("Invalid \\escape")
         ELSE scanstring(s, i + 2, Append(acc, Unescape(Ch(s, i + 1))))
    ELSE IF c \in {"\n", "\r", "\t"} THEN JFail("Invalid control character")
    ELSE scanstring(s, i + 1, Append(acc, c))

\* NUMBER_RE.match(s, i), integer part: -?(0|[1-9]\d*); 0 when there is no match
NumberEnd(s, i) ==
    LET j == IF Ch(s, i) = "-" THEN i + 1 ELSE i IN
    IF Ch(s, j) = "0" THEN j + 1
    ELSE IF Ch(s, j) \in Digits THEN SkipDigits(s, j + 1)
    ELSE 0

ParseInt(s, i, e) ==
    IF Ch(s, i) = "-" THEN 0 - DigitsToInt(SubSeq(s, i + 1, e - 1))
    ELSE DigitsToInt(SubSeq(s, i, e - 1))

\* dict(pairs): a repeated key keeps its first position and takes the last value
PutKey(d, k, v) ==
    IF \E p \in 1..Len(d.keys) : d.keys[p] = k
    THEN LET p == CHOOSE q \in 1..Len(d.keys) : d.keys[q] = k
         IN [d EXCEPT !.vals = [d.vals EXCEPT ![p] = v]]
    ELSE [d EXCEPT !.keys = Append(d.keys, k), !.vals = Append(d.vals, v)]

RECURSIVE scan_once(_, _), ArrayItems(_, _, _), ObjectItems(_, _, _)

\* JSONArray
JSONArray(s, i) ==
    LET j == SkipWs(s, i) IN
    IF Ch(s, j) = "]" THEN JOk([t |-> "list", items |-> <<>>], j + 1)
    ELSE ArrayItems(s, j, <<>>)

\* JSONObject
JSONObject(s, i) ==
    LET j == SkipWs(s, i) IN
    IF Ch(s, j) = "}" THEN JOk([t |-> "dict", keys |-> <<>>, vals |-> <<>>], j + 1)
    ELSE IF Ch(s, j) # "\"" THEN JFail("Expecting property name enclosed in double quotes")
    ELSE ObjectItems(s, j + 1, [t |-> "dict", keys |-> <<>>, vals |-> <<>>])

\* _scan_once of json.scanner
scan_once(s, i) ==
    LET c == Ch(s, i) IN
    IF c = "\"" THEN
        LET r == scanstring(s, i + 1, <<>>) IN
        IF r.ok THEN JOk([t |-> "str", s |-> r.val], r.end) ELSE r
    ELSE IF c = "{" THEN JSONObject(s, i + 1)
    ELSE IF c = "[" THEN JSONArray(s, i + 1)
    ELSE IF \E l \in 1..Len(Literals) : HasAt(s, i, Literals[l]) THEN
        LET l == CHOOSE m \in 1..Len(Literals) : HasAt(s, i, Literals[m]) IN
        JOk([t |-> "lit", s |-> Literals[l]], i + Len(Literals[l]))
    ELSE IF NumberEnd(s, i) # 0 THEN
        JOk([t |-> "int", n |-> ParseInt(s, i, NumberEnd(s, i))], NumberEnd(s, i))
    ELSE IF \E l \in 1..Len(FloatLiterals) : HasAt(s, i, FloatLiterals[l]) THEN
        LET l == CHOOSE m \in 1..Len(FloatLiterals) : HasAt(s, i, FloatLiterals[m]) IN
        JOk([t |-> "lit", s |-> FloatLiterals[l]], i + Len(FloatLiterals[l]))
    ELSE JFail("Expecting value")

ArrayItems(s, i, acc) ==
    LET r == scan_once(s, i) IN
    IF ~r.ok THEN r
    ELSE LET j == SkipWs(s, r.end) IN
         IF Ch(s, j) = "]" THEN JOk([t |-> "list", items |-> Append(acc, r.val)], j + 1)
         ELSE IF Ch(s, j) # "," THEN JFail("Expecting ',' delimiter")
         ELSE ArrayItems(s, SkipWs(s, j + 1), Append(acc, r.val))

\* i is the position after the opening quote of the next key
ObjectItems(s, i, d) ==
    LET k == scanstring(s, i, <<>>) IN
    IF ~k.ok THEN k
    ELSE LET j == SkipWs(s, k.end) IN
         IF Ch(s, j) # ":" THEN JFail("Expecting ':' delimiter")
         ELSE LET v == scan_once(s, SkipWs(s, j + 1)) IN
              IF ~v.ok THEN v
              ELSE LET j3 == SkipWs(s, v.end)
                       j4 == SkipWs(s, j3 + 1)
                   IN IF Ch(s, j3) = "}" THEN JOk(PutKey(d, k.val, v.val), j3 + 1)
                      ELSE IF Ch(s, j3) # "," THEN JFail("Expecting ',' delimiter")
                      ELSE IF Ch(s, j4) # "\""
                      THEN JFail("Expecting property name enclosed in double quotes")
                      ELSE ObjectItems(s, j4 + 1, PutKey(d, k.val, v.val))

\* json.loads(s): one value between optional whitespace
loads(s) ==
    LET r == scan_once(s, SkipWs(s, 1)) IN
    IF ~r.ok THEN r
    ELSE IF SkipWs(s, r.end) # Len(s) + 1 THEN JFail("Extra data")
    ELSE r

----------------------------------------------------------------------------
(* json.dumps(data, indent=2) *)

RECURSIVE IntToDigits(_)
IntToDigits(n) ==
    IF n < 0 THEN <<"-">> \o IntToDigits(0 - n)
    ELSE IF n < 10 THEN <<DigitChars[n + 1]>>
    ELSE IntToDigits(n \div 10) \o <<DigitChars[(n % 10) + 1]>>

\* Variant: characters are written into the string unescaped
EscapeChar_raw(c) == <<c>>

\* ESCAPE_DCT of json.encoder
EscapeChar(c) ==
    CASE c = "\"" -> <<"\\", "\"">>
      [] c = "\\" -> <<"\\", "\\">>
      [] c = "\n" -> <<"\\", "n">>
      [] c = "\r" -> <<"\\", "r">>
      [] c = "\t" -> <<"\\", "t">>
      [] OTHER -> <<c>>

RECURSIVE EscapeAll(_)
EscapeAll(s) == IF s = <<>> THEN <<>> ELSE EscapeChar(Head(s)) \o EscapeAll(Tail(s))

encode_string(s) == <<"\"">> \o EscapeAll(s) \o <<"\"">>

IndentWidth == 2

newline_indent(level) == <<"\n">> \o [i \in 1..(IndentWidth * level) |-> " "]

RECURSIVE iterencode(_, _), encode_items(_, _, _), encode_pairs(_, _, _)

\* _iterencode
iterencode(v, level) ==
    IF v.t = "str" THEN encode_string(v.s)
    ELSE IF v.t = "lit" THEN v.s
    ELSE IF v.t = "int" THEN IntToDigits(v.n)
    ELSE IF v.t = "list" THEN
        IF v.items = <<>> THEN <<"[", "]">>
        ELSE <<"[">> \o encode_items(v.items, 1, level + 1)
                     \o newline_indent(level) \o <<"]">>
    ELSE IF v.keys = <<>> THEN <<"{", "}">>
    ELSE <<"{">> \o encode_pairs(v, 1, level + 1) \o newline_indent(level) \o <<"}">>

\* _iterencode_list: the items from index p on, each on its own line
encode_items(items, p, level) ==
    IF p > Len(items) THEN <<>>
    ELSE (IF p = 1 THEN <<>> ELSE <<",">>)
         \o newline_indent(level) \o iterencode(items[p], level)
         \o encode_items(items, p + 1, level)

\* _iterencode_dict
encode_pairs(d, p, level) ==
    IF p > Len(d.keys) THEN <<>>
    ELSE (IF p = 1 THEN <<>> ELSE <<",">>)
         \o newline_indent(level) \o encode_string(d.keys[p]) \o <<":", " ">>
         \o iterencode(d.vals[p], level)
         \o encode_pairs(d, p + 1, level)

dumps(v) == iterencode(v, 0)

----------------------------------------------------------------------------
(* format_parameters *)

\* json.JSONDecodeError is the only exception the function converts.
format_parameters(parameters_str) ==
    LET data == loads(parameters_str) IN
    IF data.ok
    THEN [ok |-> TRUE, val |-> dumps(data.val), err |-> NoMsg]
    ELSE [ok |-> FALSE, val |-> <<>>,
          err |-> Msg("Invalid JSON parameters: ", data.diag, <<>>)]

----------------------------------------------------------------------------
(* send_webhook *)

BEARER == <<"B", "e", "a", "r", "e", "r", " ">>

\* What the post can do: return a 2xx response with a JSON body, raise in
\* requests.post, raise in raise_for_status, raise in response.json().
PostOutcomes == {"ok", "ConnectionError", "HTTPError", "JSONDecodeError"}

\* Variant: only the HTTP status error is caught
CaughtBySendWebhook_http(outcome) == outcome = "HTTPError"

\* `except Exception` of send_webhook: every failure of the post is an Exception
CaughtBySendWebhook(outcome) == outcome \in {"ConnectionError", "HTTPError", "JSONDecodeError"}

\* Variant: `is not None` instead of truthiness
webhook_headers_isset(e) ==
    IF e.WEBHOOK_SECRET.set
    THEN [Authorization |-> Some(BEARER \o e.WEBHOOK_SECRET.val)]
    ELSE [Authorization |-> None]

\* headers of the post: Authorization only when WEBHOOK_SECRET is truthy
webhook_headers(e) ==
    IF Truthy(e.WEBHOOK_SECRET)
    THEN [Authorization |-> Some(BEARER \o e.WEBHOOK_SECRET.val)]
    ELSE [Authorization |-> None]

\* The effect of one call: the posts made so far, the lines it prints and
\* whether an exception leaves the function.
send_webhook(e, webhook_url, status, message, outcome, sent) ==
    IF ~Truthy(webhook_url)
    THEN [posts |-> sent, printed |-> <<>>, raised |-> FALSE]
    ELSE [posts |-> Append(sent, [url |-> webhook_url.val,
                                  json |-> [status |-> status, message |-> message],
                                  headers |-> webhook_headers(e),
                                  outcome |-> outcome]),
          printed |-> IF outcome = "ok"
                      THEN << [stream |-> "stdout", prefix |-> "Webhook sent successfully: ",
                               msg |-> NoMsg] >>
                      ELSE IF CaughtBySendWebhook(outcome)
                      THEN << [stream |-> "stderr", prefix |-> "Warning: Failed to send webhook: ",
                               msg |-> Msg("", outcome, <<>>)] >>
                      ELSE <<>>,
          raised |-> outcome # "ok" /\ ~CaughtBySendWebhook(outcome)]

----------------------------------------------------------------------------
(* download_notebook *)

DownloadOutcomes == {"ok", "HTTPError", "ConnectionError"}

\* Every exception is re-raised as ValueError("Failed to download notebook: ...")
download_notebook(outcome) ==
    IF outcome = "ok"
    THEN [ok |-> TRUE, err |-> NoMsg]
    ELSE [ok |-> FALSE, err |-> Msg("Failed to download notebook: ", outcome, <<>>)]

----------------------------------------------------------------------------
(* execute_notebook *)

\* Staging of the parameters file: the file is created and written, or it
\* cannot be created, or it is created and writing (or closing) it fails.
StageOutcomes == {"ok", "create_failed", "write_failed"}

\* subprocess.run: return code 0, a non-zero return code, or no process at all
RunOutcomes == {"ok", "nonzero", "not_started"}

STDERR == <<"t", "r", "a", "c", "e">>

run_result(run) ==
    IF run = "ok" THEN [ok |-> TRUE, err |-> NoMsg]
    ELSE IF run = "nonzero"
    THEN [ok |-> FALSE, err |-> Msg("Notebook execution failed: ", "", STDERR)]
    ELSE [ok |-> FALSE, err |-> Msg("", "FileNotFoundError", <<>>)]

\* cmd, as far as it varies: the --kernel flag and the -f parameters file
papermill_cmd(kernel, param_content) ==
    [kernel |-> IF Truthy(kernel) THEN kernel ELSE None, f |-> param_content]

\* The result of the call, the state the parameters file is left in and the
\* subprocess.run call made, if any.
execute_notebook(parameters, kernel, stage, run) ==
    IF Truthy(parameters)
    THEN IF stage = "create_failed"
         THEN [ok |-> FALSE, err |-> Msg("", "OSError", <<>>), param_file |-> "none", runs |-> <<>>]
         ELSE IF stage = "write_failed"
         THEN [ok |-> FALSE, err |-> Msg("", "OSError", <<>>), param_file |-> "exists", runs |-> <<>>]
         ELSE [ok |-> run_result(run).ok, err |-> run_result(run).err,
               param_file |-> "deleted",
               runs |-> << papermill_cmd(kernel, Some(parameters.val)) >>]
    ELSE [ok |-> run_result(run).ok, err |-> run_result(run).err,
          param_file |-> "none",
          runs |-> << papermill_cmd(kernel, None) >>]

----------------------------------------------------------------------------
(* The environment of a job *)

URL == <<"h", "t", "t", "p", ":", "/", "/", "n">>

HOOK == <<"h", "t", "t", "p", ":", "/", "/", "w">>

SECRET == <<"s", "3">>

V39 == <<"3", ".", "9">>

V311RC == <<"3", ".", "1", "1", "R", "C">>

\* kernel names: python3.9, python3.11, python3.11-experimental, r-kernel, Python3.11rc
K39 == PYTHON \o V39

K311 == PYTHON \o DefaultVersion

K311EXP == K311 \o <<"-", "e", "x", "p", "e", "r", "i", "m", "e", "n", "t", "a", "l">>

KR == <<"r", "-", "k", "e", "r", "n", "e", "l">>

KP311RC == <<"P", "y", "t", "h", "o", "n", "3", ".", "1", "1", "r", "c">>

\* parameter texts of the job: {"a":1}, [1, "n"] with blanks, {"a": and a blank
ParamSamples == { <<"{", "\"", "a", "\"", ":", "1", "}">>,
                  <<"[", "1", ",", " ", "\"", "n", "\"", "]">>,
                  <<"{", "\"", "a", "\"", ":">>,
                  <<" ">> }

Optional(S) == {None, Some(<<>>)} \cup {Some(v) : v \in S}

Environments ==
    [NOTEBOOK : Optional({URL}),
     PARAMETERS : Optional(ParamSamples),
     WEBHOOK : Optional({HOOK}),
     WEBHOOK_SECRET : Optional({SECRET}),
     PYTHON_VERSION : {None, Some(V39)}]

\* registries the job may find installed
JobRegistries == { <<K39, K311, K311EXP>>, <<K39, KR>>, <<KR>>, <<>> }

NoExc == [set |-> FALSE, val |-> NoMsg]

Raise(m) == [set |-> TRUE, val |-> m]

Call(op, ok) == [op |-> op, ok |-> ok]

\* a printed line: a fixed prefix followed by a message
Line(stream, prefix, m) == [stream |-> stream, prefix |-> prefix, msg |-> m]

MissingNotebookMsg == Msg("NOTEBOOK environment variable is not set", "", <<>>)

SuccessMsg == Msg("Notebook execution completed successfully", "", <<>>)

\* main's locals read from the environment
notebook_url == env.NOTEBOOK

parameters_str == env.PARAMETERS

webhook_url == env.WEBHOOK

python_version == get_python_version(env)

Init ==
    /\ env \in Environments
    /\ pc = "start"
    /\ kernels = <<>>
    /\ kernel_name = None
    /\ formatted_params = None
    /\ reformatted = None
    /\ temp_dir = "none"
    /\ files = {}
    /\ param_file = "none"
    /\ exc = NoExc
    /\ error_msg = NoMsg
    /\ printed = <<>>
    /\ posts = <<>>
    /\ runs = <<>>
    /\ calls = <<>>
    /\ exit_code = -1

----------------------------------------------------------------------------
(* main, one action per call it makes *)

\* Variant: the sys.exit(1) after the notification is missing
Main_Start_noexit ==
    /\ pc = "start"
    /\ IF ~Truthy(notebook_url)
       THEN \E o \in PostOutcomes :
              LET w == send_webhook(env, webhook_url, "failed", MissingNotebookMsg, o, posts) IN
              /\ posts' = w.posts
              /\ printed' = printed \o <<Line("stderr", "Error: ", MissingNotebookMsg)>>
                                     \o w.printed
              /\ calls' = Append(calls, Call("send_webhook", ~w.raised))
              /\ exit_code' = exit_code
              /\ pc' = "mkdtemp"
       ELSE /\ pc' = "mkdtemp"
            /\ UNCHANGED <<posts, printed, calls, exit_code>>
    /\ UNCHANGED <<env, kernels, kernel_name, formatted_params, reformatted, temp_dir,
                   files, param_file, exc, error_msg, runs>>

\* lines 106-114: read the environment; without NOTEBOOK report and exit(1)
Main_Start ==
    /\ pc = "start"
    /\ IF ~Truthy(notebook_url)
       THEN \E o \in PostOutcomes :
              LET w == send_webhook(env, webhook_url, "failed", MissingNotebookMsg, o, posts) IN
              /\ posts' = w.posts
              /\ printed' = printed \o <<Line("stderr", "Error: ", MissingNotebookMsg)>>
                                     \o w.printed
              /\ calls' = Append(calls, Call("send_webhook", ~w.raised))
              /\ exit_code' = 1
              /\ pc' = "done"
       ELSE /\ pc' = "mkdtemp"
            /\ UNCHANGED <<posts, printed, calls, exit_code>>
    /\ UNCHANGED <<env, kernels, kernel_name, formatted_params, reformatted, temp_dir,
                   files, param_file, exc, error_msg, runs>>

\* line 118: tempfile.TemporaryDirectory(); a failure is raised before the
\* with block is entered, so there is nothing to clean up
Main_TempDir ==
    /\ pc = "mkdtemp"
    /\ \E ok \in BOOLEAN :
         /\ calls' = Append(calls, Call("TemporaryDirectory", ok))
         /\ IF ok
            THEN /\ temp_dir' = "exists"
                 /\ pc' = "download"
                 /\ exc' = exc
            ELSE /\ temp_dir' = temp_dir
                 /\ pc' = "except"
                 /\ exc' = Raise(Msg("", "OSError", <<>>))
    /\ UNCHANGED <<env, kernels, kernel_name, formatted_params, reformatted, files,
                   param_file, error_msg, printed, posts, runs, exit_code>>

\* Variant: the try/except sits inside the with block, so a failure is
\* reported while the directory still exists
Main_Download_inside ==
    /\ pc = "download"
    /\ \E o \in DownloadOutcomes :
         LET r == download_notebook(o) IN
         /\ calls' = Append(calls, Call("download_notebook", r.ok))
         /\ IF r.ok
            THEN /\ files' = files \cup {"notebook.ipynb"}
                 /\ pc' = "get_kernel"
                 /\ exc' = exc
            ELSE /\ files' = files
                 /\ pc' = "except"
                 /\ exc' = Raise(r.err)
    /\ UNCHANGED <<env, kernels, kernel_name, formatted_params, reformatted, temp_dir,
                   param_file, error_msg, printed, posts, runs, exit_code>>

\* line 125: download_notebook(notebook_url, notebook_path)
Main_Download ==
    /\ pc = "download"
    /\ \E o \in DownloadOutcomes :
         LET r == download_notebook(o) IN
         /\ calls' = Append(calls, Call("download_notebook", r.ok))
         /\ IF r.ok
            THEN /\ files' = files \cup {"notebook.ipynb"}
                 /\ pc' = "get_kernel"
                 /\ exc' = exc
            ELSE /\ files' = files
                 /\ pc' = "cleanup"
                 /\ exc' = Raise(r.err)
    /\ UNCHANGED <<env, kernels, kernel_name, formatted_params, reformatted, temp_dir,
                   param_file, error_msg, printed, posts, runs, exit_code>>

\* Variant: a failed resolution is swallowed and the job goes on without a kernel
Main_GetKernel_swallow ==
    /\ pc = "get_kernel"
    /\ \E ks \in JobRegistries, queryOk \in BOOLEAN :
         LET r == get_python_kernel(ks, python_version, queryOk) IN
         /\ kernels' = IF queryOk THEN ks ELSE kernels
         /\ calls' = Append(calls, Call("get_python_kernel", r.ok))
         /\ kernel_name' = IF r.ok THEN Some(r.val) ELSE kernel_name
         /\ pc' = "format"
         /\ exc' = exc
    /\ UNCHANGED <<env, formatted_params, reformatted, temp_dir, files, param_file,
                   error_msg, printed, posts, runs, exit_code>>

\* line 129: kernel_name = get_python_kernel()
Main_GetKernel ==
    /\ pc = "get_kernel"
    /\ \E ks \in JobRegistries, queryOk \in BOOLEAN :
         LET r == get_python_kernel(ks, python_version, queryOk) IN
         /\ kernels' = IF queryOk THEN ks ELSE kernels
         /\ calls' = Append(calls, Call("get_python_kernel", r.ok))
         /\ IF r.ok
            THEN /\ kernel_name' = Some(r.val)
                 /\ pc' = "format"
                 /\ exc' = exc
            ELSE /\ kernel_name' = kernel_name
                 /\ pc' = "cleanup"
                 /\ exc' = Raise(r.err)
    /\ UNCHANGED <<env, formatted_params, reformatted, temp_dir, files, param_file,
                   error_msg, printed, posts, runs, exit_code>>

\* Variant: a formatting error is swallowed and the notebook runs without parameters
Main_Format_continue ==
    /\ pc = "format"
    /\ IF Truthy(parameters_str)
       THEN LET r == format_parameters(parameters_str.val) IN
            /\ calls' = Append(calls, Call("format_parameters", r.ok))
            /\ formatted_params' = IF r.ok THEN Some(r.val) ELSE None
            /\ pc' = "execute"
            /\ exc' = exc
       ELSE /\ formatted_params' = None
            /\ pc' = "execute"
            /\ UNCHANGED <<calls, exc>>
    /\ UNCHANGED <<env, kernels, kernel_name, reformatted, temp_dir, files, param_file,
                   error_msg, printed, posts, runs, exit_code>>

\* lines 133-140: formatted_params = format_parameters(parameters_str) if
\* parameters_str is truthy, else None
Main_Format ==
    /\ pc = "format"
    /\ IF Truthy(parameters_str)
       THEN LET r == format_parameters(parameters_str.val) IN
            /\ calls' = Append(calls, Call("format_parameters", r.ok))
            /\ IF r.ok
               THEN /\ formatted_params' = Some(r.val)
                    /\ pc' = "execute"
                    /\ exc' = exc
               ELSE /\ formatted_params' = formatted_params
                    /\ pc' = "cleanup"
                    /\ exc' = Raise(r.err)
       ELSE /\ formatted_params' = None
            /\ pc' = "execute"
            /\ UNCHANGED <<calls, exc>>
    /\ UNCHANGED <<env, kernels, kernel_name, reformatted, temp_dir, files, param_file,
                   error_msg, printed, posts, runs, exit_code>>

\* Variant: the raw PARAMETERS text is handed to execute_notebook
Main_Execute_raw ==
    /\ pc = "execute"
    /\ \E stage \in StageOutcomes, run \in RunOutcomes, partial \in BOOLEAN :
         LET r == execute_notebook(parameters_str, kernel_name, stage, run) IN
         /\ calls' = Append(calls, Call("execute_notebook", r.ok))
         /\ runs' = runs \o r.runs
         /\ param_file' = r.param_file
         /\ files' = IF r.runs # <<>> /\ (run = "ok" \/ (run = "nonzero" /\ partial))
                     THEN files \cup {"output.ipynb"}
                     ELSE files
         /\ IF r.ok
            THEN /\ pc' = "notify_success"
                 /\ exc' = exc
            ELSE /\ pc' = "cleanup"
                 /\ exc' = Raise(r.err)
    /\ UNCHANGED <<env, kernels, kernel_name, formatted_params, reformatted, temp_dir,
                   error_msg, printed, posts, exit_code>>

\* line 143: execute_notebook(notebook_path, output_path, formatted_params, kernel_name).
\* papermill writes output.ipynb when it succeeds and may have written it when it fails.
Main_Execute ==
    /\ pc = "execute"
    /\ \E stage \in StageOutcomes, run \in RunOutcomes, partial \in BOOLEAN :
         LET r == execute_notebook(formatted_params, kernel_name, stage, run) IN
         /\ calls' = Append(calls, Call("execute_notebook", r.ok))
         /\ runs' = runs \o r.runs
         /\ param_file' = r.param_file
         /\ files' = IF r.runs # <<>> /\ (run = "ok" \/ (run = "nonzero" /\ partial))
                     THEN files \cup {"output.ipynb"}
                     ELSE files
         /\ IF r.ok
            THEN /\ pc' = "notify_success"
                 /\ exc' = exc
            ELSE /\ pc' = "cleanup"
                 /\ exc' = Raise(r.err)
    /\ UNCHANGED <<env, kernels, kernel_name, formatted_params, reformatted, temp_dir,
                   error_msg, printed, posts, exit_code>>

\* lines 145-146: print and send the success notification, still inside the with block
Main_NotifySuccess ==
    /\ pc = "notify_success"
    /\ \E o \in PostOutcomes :
         LET w == send_webhook(env, webhook_url, "success", SuccessMsg, o, posts) IN
         /\ posts' = w.posts
         /\ printed' = printed \o <<Line("stdout", "", SuccessMsg)>> \o w.printed
         /\ calls' = Append(calls, Call("send_webhook", ~w.raised))
         /\ exc' = IF w.raised THEN Raise(Msg("", o, <<>>)) ELSE exc
         /\ pc' = "cleanup"
    /\ UNCHANGED <<env, kernels, kernel_name, formatted_params, reformatted, temp_dir,
                   files, param_file, error_msg, runs, exit_code>>

\* Variant: the directory comes from mkdtemp() and nothing removes it
Main_Cleanup_keep ==
    /\ pc = "cleanup"
    /\ calls' = calls
    /\ IF exc.set
       THEN pc' = "except" /\ exit_code' = exit_code
       ELSE pc' = "done" /\ exit_code' = 0
    /\ UNCHANGED <<env, kernels, kernel_name, formatted_params, reformatted, temp_dir,
                   files, param_file, exc, error_msg, printed, posts, runs>>

\* line 118, leaving the with block (normally or by an exception):
\* TemporaryDirectory.__exit__ removes the directory, or raises and replaces
\* the exception in flight.  Without an exception main returns and the
\* process exits with status 0.
Main_Cleanup ==
    /\ pc = "cleanup"
    /\ \E ok \in BOOLEAN :
         /\ calls' = Append(calls, Call("cleanup", ok))
         /\ temp_dir' = IF ok THEN "removed" ELSE "leftover"
         /\ files' = IF ok THEN {} ELSE files
         /\ exc' = IF ok THEN exc ELSE Raise(Msg("", "OSError", <<>>))
         /\ IF exc'.set
            THEN pc' = "except" /\ exit_code' = exit_code
            ELSE pc' = "done" /\ exit_code' = 0
    /\ UNCHANGED <<env, kernels, kernel_name, formatted_params, reformatted, param_file,
                   error_msg, printed, posts, runs>>

\* lines 148-152: except Exception: print the message, notify "failed", exit(1).
\* An exception leaving send_webhook here would end the process with status 1 too.
Main_Except ==
    /\ pc = "except"
    /\ \E o \in PostOutcomes :
         LET w == send_webhook(env, webhook_url, "failed", exc.val, o, posts) IN
         /\ error_msg' = exc.val
         /\ posts' = w.posts
         /\ printed' = printed \o <<Line("stderr", "Error: ", exc.val)>> \o w.printed
         /\ calls' = Append(calls, Call("send_webhook", ~w.raised))
         /\ exit_code' = 1
         /\ pc' = "done"
    /\ UNCHANGED <<env, kernels, kernel_name, formatted_params, reformatted, temp_dir,
                   files, param_file, exc, runs>>

Next ==
    \/ Main_Start
    \/ Main_TempDir
    \/ Main_Download
    \/ Main_GetKernel
    \/ Main_Format
    \/ Main_Execute
    \/ Main_NotifySuccess
    \/ Main_Cleanup
    \/ Main_Except

Spec == Init /\ [][Next]_vars

Done == pc = "done"

----------------------------------------------------------------------------
(* get_python_kernel on its own: every registry of at most MaxKernels       *)
(* distinct kernel names, every requested version                           *)

KernelNames == {K39, K311, K311EXP, KR, KP311RC}

Registries == {ks \in SeqsUpTo(KernelNames, MaxKernels) : IsInjective(ks)}

VersionValues == {None, Some(<<>>), Some(V39), Some(DefaultVersion), Some(V311RC)}

InitKernel ==
    /\ env \in [NOTEBOOK : {None}, PARAMETERS : {None}, WEBHOOK : {None},
                WEBHOOK_SECRET : {None}, PYTHON_VERSION : VersionValues]
    /\ kernels \in Registries
    /\ pc = "resolver"
    /\ kernel_name = None
    /\ formatted_params = None
    /\ reformatted = None
    /\ temp_dir = "none"
    /\ files = {}
    /\ param_file = "none"
    /\ exc = NoExc
    /\ error_msg = NoMsg
    /\ printed = <<>>
    /\ posts = <<>>
    /\ runs = <<>>
    /\ calls = <<>>
    /\ exit_code = -1

\* a call of get_python_kernel() against the registry
Resolve ==
    /\ pc = "resolver"
    /\ LET r == get_python_kernel(kernels, python_version, TRUE) IN
       /\ calls' = Append(calls, Call("get_python_kernel", r.ok))
       /\ kernel_name' = IF r.ok THEN Some(r.val) ELSE None
       /\ exc' = IF r.ok THEN exc ELSE Raise(r.err)
       /\ pc' = "resolved"
    /\ UNCHANGED <<env, kernels, formatted_params, reformatted, temp_dir, files,
                   param_file, error_msg, printed, posts, runs, exit_code>>

NextKernel == Resolve

SpecKernel == InitKernel /\ [][NextKernel]_vars

----------------------------------------------------------------------------
(* format_parameters on its own: every text of at most MaxLen characters    *)
(* over FormatAlphabet, and longer sample texts                             *)

FormatAlphabet == {"[", "]", "{", "}", ",", ":", "\"", "a", "0", "1", "-", " ",
                   "\\", "/", "n", "\n"}

\* {"a":1,"a":0}   {"k":[1,{"a":""}]}   { "a" : 1 , "k" : [ ] }   [10,-10,-0]
\* "\n\"\\\/"   null   [true,false]   NaN   {"a":1,}   {"a" 1}   [1 0]   nul
FormatSamples == {
    <<"{", "\"", "a", "\"", ":", "1", ",", "\"", "a", "\"", ":", "0", "}">>,
    <<"{", "\"", "k", "\"", ":", "[", "1", ",", "{", "\"", "a", "\"", ":", "\"", "\"", "}", "]", "}">>,
    <<" ", "{", " ", "\"", "a", "\"", " ", ":", " ", "1", " ", ",", " ", "\"", "k", "\"", " ", ":", " ", "[", " ", "]", " ", "}", " ">>,
    <<"[", "1", "0", ",", "-", "1", "0", ",", "-", "0", "]">>,
    <<"\"", "\\", "n", "\\", "\"", "\\", "\\", "\\", "/", "\"">>,
    <<"n", "u", "l", "l">>,
    <<"[", "t", "r", "u", "e", ",", "f", "a", "l", "s", "e", "]">>,
    <<"N", "a", "N">>,
    <<"{", "\"", "a", "\"", ":", "1", ",", "}">>,
    <<"{", "\"", "a", "\"", " ", "1", "}">>,
    <<"[", "1", " ", "0", "]">>,
    <<"n", "u", "l">> }

FormatTexts == SeqsUpTo(FormatAlphabet, MaxLen) \cup FormatSamples \cup ParamSamples

InitFormat ==
    /\ env \in [NOTEBOOK : {None}, PARAMETERS : {Some(t) : t \in FormatTexts},
                WEBHOOK : {None}, WEBHOOK_SECRET : {None}, PYTHON_VERSION : {None}]
    /\ kernels = <<>>
    /\ pc = "formatter"
    /\ kernel_name = None
    /\ formatted_params = None
    /\ reformatted = None
    /\ temp_dir = "none"
    /\ files = {}
    /\ param_file = "none"
    /\ exc = NoExc
    /\ error_msg = NoMsg
    /\ printed = <<>>
    /\ posts = <<>>
    /\ runs = <<>>
    /\ calls = <<>>
    /\ exit_code = -1

\* format_parameters(parameters_str)
Format ==
    /\ pc = "formatter"
    /\ LET r == format_parameters(parameters_str.val) IN
       /\ calls' = Append(calls, Call("format_parameters", r.ok))
       /\ formatted_params' = IF r.ok THEN Some(r.val) ELSE None
       /\ exc' = IF r.ok THEN exc ELSE Raise(r.err)
       /\ pc' = IF r.ok THEN "formatted" ELSE "rejected"
    /\ UNCHANGED <<env, kernels, kernel_name, reformatted, temp_dir, files, param_file,
                   error_msg, printed, posts, runs, exit_code>>

\* format_parameters applied to the text it returned
Reformat ==
    /\ pc = "formatted"
    /\ LET r == format_parameters(formatted_params.val) IN
       /\ calls' = Append(calls, Call("format_parameters", r.ok))
       /\ reformatted' = IF r.ok THEN Some(r.val) ELSE None
       /\ exc' = IF r.ok THEN exc ELSE Raise(r.err)
       /\ pc' = "reformatted"
    /\ UNCHANGED <<env, kernels, kernel_name, formatted_params, temp_dir, files,
                   param_file, error_msg, printed, posts, runs, exit_code>>

NextFormat == Format \/ Reformat

SpecFormat == InitFormat /\ [][NextFormat]_vars

----------------------------------------------------------------------------
(* Properties *)

CallsOf(op) == {i \in DOMAIN calls : calls[i].op = op}

Succeeded(op) == \E i \in DOMAIN calls : calls[i] = Call(op, TRUE)

SucceededBefore(op, j) == \E i \in 1..(j - 1) : calls[i] = Call(op, TRUE)

StepsSucceeded ==
    /\ Truthy(notebook_url)
    /\ Succeeded("download_notebook")
    /\ Succeeded("get_python_kernel")
    /\ Truthy(parameters_str) => Succeeded("format_parameters")
    /\ Succeeded("execute_notebook")

\* C1 (as claimed): when the process has exited, its status is 0 if and only
\* if the document source is present and fetch, kernel resolution, formatting
\* (when parameters are supplied) and execution all succeeded; otherwise it is 1.
C1_ExitZeroIffStepsSucceeded ==
    Done => /\ exit_code \in {0, 1}
            /\ exit_code = 0 <=> StepsSucceeded

\* C2: every call of send_webhook returns normally whatever the post did, and
\* the exit status is the one the job's own steps determine: 0 when every step
\* and the release of the workspace succeeded, 1 otherwise.
C2_NotifierNeverFailsJob ==
    /\ \A i \in CallsOf("send_webhook") : calls[i].ok
    /\ Done => exit_code = IF StepsSucceeded /\ Succeeded("cleanup") THEN 0 ELSE 1

\* a successful job whose notification post failed
C2_Witness ==
    /\ Done
    /\ exit_code = 0
    /\ \E p \in DOMAIN posts : posts[p].outcome # "ok"

\* C3 (as claimed): in every terminal state send_webhook has been called
\* exactly once, making one POST when WEBHOOK is configured and none otherwise.
C3_NotifiedExactlyOnce ==
    Done => /\ Cardinality(CallsOf("send_webhook")) = 1
            /\ Len(posts) = IF Truthy(webhook_url) THEN 1 ELSE 0

C5_NoStagingFileLeft == param_file # "exists"

MissingSourcePath(message) ==
    (Done /\ ~Truthy(notebook_url)) =>
        /\ calls = <<Call("send_webhook", TRUE)>>
        /\ runs = <<>>
        /\ temp_dir = "none"
        /\ exit_code = 1
        /\ Len(posts) = IF Truthy(webhook_url) THEN 1 ELSE 0
        /\ \A p \in DOMAIN posts :
             posts[p].json = [status |-> "failed", message |-> message]

\* C6 (as claimed): without a document source nothing but the notifier is
\* invoked, a "failed" notification with the message "document source not
\* specified" is attempted and the process exits with status 1.
C6_MissingSourceSpecMessage ==
    MissingSourcePath(Msg("document source not specified", "", <<>>))

\* C6 (amended): the same, the message of the notification being
\* "NOTEBOOK environment variable is not set".
C6_MissingSource == MissingSourcePath(MissingNotebookMsg)

\* a job without a document source that posted its notification
C6_Witness ==
    /\ Done
    /\ ~Truthy(notebook_url)
    /\ Len(posts) = 1

ExactMatch(k) == Contains(Lower(k), PYTHON \o python_version)

FallbackMatch(k) == Contains(Lower(k), PYTHON)

\* the kernel returned is the first of the registry that satisfies Match
FirstMatch(Match(_)) ==
    /\ kernel_name.set
    /\ \E i \in DOMAIN kernels :
         /\ kernels[i] = kernel_name.val
         /\ Match(kernels[i])
         /\ \A j \in 1..(i - 1) : ~Match(kernels[j])

\* C7: get_python_kernel returns the first kernel in enumeration order whose
\* name contains "python"+version if there is one, else the first whose name
\* contains "python", else raises an error that names the requested version.
C7_ResolutionPolicy ==
    pc = "resolved" =>
        IF \E i \in DOMAIN kernels : ExactMatch(kernels[i])
        THEN FirstMatch(ExactMatch)
        ELSE IF \E i \in DOMAIN kernels : FallbackMatch(kernels[i])
        THEN FirstMatch(FallbackMatch)
        ELSE /\ ~kernel_name.set
             /\ exc.set
             /\ exc.val.detail = "No Python kernel found for version "
             /\ exc.val.arg = python_version

\* python3.9 is enumerated before python3.11 and python3.11 is returned for 3.11
C7_Witness ==
    /\ pc = "resolved"
    /\ kernels = <<K39, K311, K311EXP>>
    /\ python_version = DefaultVersion
    /\ kernel_name = Some(K311)

\* C8: every POST carries the header Authorization: Bearer <secret> if and
\* only if WEBHOOK_SECRET is configured (set and not empty), and its body is
\* the pair status, message with status "success" or "failed".
C8_AuthorizationHeader ==
    \A p \in DOMAIN posts :
        /\ posts[p].headers.Authorization.set <=> Truthy(env.WEBHOOK_SECRET)
        /\ posts[p].headers.Authorization.set =>
             posts[p].headers.Authorization.val = BEARER \o env.WEBHOOK_SECRET.val
        /\ DOMAIN posts[p].json = {"status", "message"}
        /\ posts[p].json.status \in {"success", "failed"}

\* a POST with the header has been made, by a job with a secret
C8_Witness ==
    /\ Done
    /\ \E p \in DOMAIN posts : posts[p].headers.Authorization = Some(BEARER \o SECRET)

\* C9: formatting the output of format_parameters again succeeds and returns
\* the same text; a text json.loads rejects makes format_parameters raise the
\* ValueError "Invalid JSON parameters: ..." and nothing else.
C9_FormatIdempotent ==
    /\ pc = "reformatted" => reformatted = formatted_params /\ reformatted.set
    /\ pc = "rejected" => /\ exc.set
                          /\ exc.val.prefix = "Invalid JSON parameters: "
                          /\ ~formatted_params.set

\* a text that formatting changed, with characters that need escaping, was reformatted
C9_Witness ==
    /\ pc = "reformatted"
    /\ formatted_params.val # parameters_str.val
    /\ \E i \in DOMAIN formatted_params.val : formatted_params.val[i] = "\\"

StepRank(op) ==
    CASE op = "download_notebook" -> 1
      [] op = "get_python_kernel" -> 2
      [] op = "format_parameters" -> 3
      [] op = "execute_notebook" -> 4
      [] op = "send_webhook" -> 5
      [] OTHER -> 0

\* C10: the steps a job performs occur in the order fetch, kernel resolution,
\* formatting, execution, notification, each of the first four at most once;
\* the resolver runs only after the download wrote the document, the
\* formatter only after a kernel was resolved, the executor only after a
\* kernel was resolved and, with parameters, formatting succeeded.
C10_FixedStepOrder ==
    /\ \A i, j \in DOMAIN calls :
         (i < j /\ StepRank(calls[i].op) > 0 /\ StepRank(calls[j].op) > 0) =>
             \/ StepRank(calls[i].op) < StepRank(calls[j].op)
             \/ calls[i].op = "send_webhook" /\ calls[j].op = "send_webhook"
    /\ \A j \in DOMAIN calls :
         /\ calls[j].op = "get_python_kernel" => SucceededBefore("download_notebook", j)
         /\ calls[j].op = "format_parameters" => SucceededBefore("get_python_kernel", j)
         /\ calls[j].op = "execute_notebook" =>
              /\ SucceededBefore("get_python_kernel", j)
              /\ Truthy(parameters_str) => SucceededBefore("format_parameters", j)
    /\ pc = "get_kernel" => "notebook.ipynb" \in files
    /\ pc \in {"format", "execute"} => kernel_name.set
    /\ (pc = "execute" /\ Truthy(parameters_str)) => formatted_params.set

\* a job with parameters ran all five steps
C10_Witness ==
    /\ Done
    /\ exit_code = 0
    /\ Truthy(parameters_str)
    /\ Cardinality({calls[i].op : i \in DOMAIN calls}) = 7

PipelineSteps == {"download_notebook", "get_python_kernel", "format_parameters",
                  "execute_notebook"}

\* C11: once one of fetch, kernel resolution, formatting or execution has
\* failed, none of these four is called any more and the job ends with exit
\* status 1; each of the four is called at most once in a job.
C11_ShortCircuitNoRetry ==
    /\ \A i, j \in DOMAIN calls :
         (i < j /\ calls[i].op \in PipelineSteps /\ ~calls[i].ok) =>
             calls[j].op \notin PipelineSteps
    /\ \A op \in PipelineSteps : Cardinality(CallsOf(op)) <= 1
    /\ (\E i \in DOMAIN calls : calls[i].op \in PipelineSteps /\ ~calls[i].ok) =>
           /\ runs = <<>> \/ Call("execute_notebook", FALSE) \in {calls[i] : i \in DOMAIN calls}
           /\ pc \in {"cleanup", "except", "done"}
           /\ Done => exit_code = 1

\* a job whose download failed has ended: no registry query, no executor run
C11_Witness ==
    /\ Done
    /\ Call("download_notebook", FALSE) \in {calls[i] : i \in DOMAIN calls}
    /\ kernels = <<>>
    /\ runs = <<>>
    /\ exit_code = 1

\* C12 (as claimed): on every path that acquired a workspace, send_webhook is
\* called before the workspace is released.
C12_ReportBeforeRelease ==
    \A j \in CallsOf("cleanup") : \E i \in 1..(j - 1) : calls[i].op = "send_webhook"

\* C12 (amended): when the executor succeeded, the success notification is
\* attempted while the workspace still exists, before its release; when a
\* step failed inside the workspace, the workspace is released first and the
\* failure notification is attempted after the release.
C12_ReleaseBeforeFailureReport ==
    /\ pc = "notify_success" => temp_dir = "exists" /\ CallsOf("cleanup") = {}
    /\ pc = "except" => temp_dir # "exists"
    /\ \A j \in CallsOf("cleanup") :
         /\ Succeeded("execute_notebook") =>
              \E i \in 1..(j - 1) : calls[i].op = "send_webhook"
         /\ ~Succeeded("execute_notebook") =>
              \A i \in 1..(j - 1) : calls[i].op # "send_webhook"
    /\ (Done /\ CallsOf("cleanup") # {} /\ ~Succeeded("execute_notebook")) =>
         \E j \in CallsOf("cleanup") : \E i \in CallsOf("send_webhook") : j < i

\* a job whose executor failed released its workspace and then posted "failed"
C12_Witness ==
    /\ Done
    /\ Call("execute_notebook", FALSE) \in {calls[i] : i \in DOMAIN calls}
    /\ temp_dir = "removed"
    /\ Len(posts) = 1
    /\ posts[1].json.status = "failed"

\* the messages of the diagnostics printed as "Error: ..."
ErrorDiagnostics ==
    {printed[i].msg : i \in {k \in DOMAIN printed : printed[k].prefix = "Error: "}}

FirstFailedStep(op) ==
    \E i \in DOMAIN calls :
        /\ calls[i] = Call(op, FALSE)
        /\ \A j \in 1..(i - 1) : ~(calls[j].op \in PipelineSteps /\ ~calls[j].ok)

\* what each step raises when it fails
IsDiagnosticOf(op, m) ==
    CASE op = "download_notebook" -> m.prefix = "Failed to download notebook: "
      [] op = "get_python_kernel" -> m.prefix = "Error getting kernel: "
      [] op = "format_parameters" -> m.prefix = "Invalid JSON parameters: "
      [] op = "execute_notebook" ->
            m \in {Msg("Notebook execution failed: ", "", STDERR),
                   Msg("", "FileNotFoundError", <<>>), Msg("", "OSError", <<>>)}

\* C13 (as claimed): when a job has failed, every "failed" notification
\* carries the message of the printed diagnostic, and that message is the
\* diagnostic of the first step that failed; when a job has succeeded, its
\* notification carries status "success" and the fixed success message.
C13_FailureMessageIsFirstFailure ==
    /\ (Done /\ exit_code = 1) =>
         /\ Cardinality(ErrorDiagnostics) = 1
         /\ \A p \in DOMAIN posts :
              posts[p].json.status = "failed" => posts[p].json.message \in ErrorDiagnostics
         /\ \A op \in PipelineSteps :
              FirstFailedStep(op) => \A m \in ErrorDiagnostics : IsDiagnosticOf(op, m)
    /\ (Done /\ exit_code = 0) =>
         \A p \in DOMAIN posts :
              posts[p].json = [status |-> "success", message |-> SuccessMsg]

\* C14: format_parameters is called if and only if PARAMETERS was supplied
\* (and the job got as far as formatting); with parameters the executor runs
\* only after formatting succeeded and its -f file holds the formatted text;
\* after a formatting failure the executor is never called; without
\* parameters the formatter is never called and the executor runs without -f.
C14_FormattingIffParameters ==
    /\ CallsOf("format_parameters") # {} => Truthy(parameters_str)
    /\ (Truthy(parameters_str) /\ Succeeded("get_python_kernel") /\ pc # "format") =>
          CallsOf("format_parameters") # {}
    /\ \A j \in CallsOf("execute_notebook") :
          Truthy(parameters_str) => SucceededBefore("format_parameters", j)
    /\ \A r \in DOMAIN runs :
          IF Truthy(parameters_str)
          THEN /\ Succeeded("format_parameters")
               /\ runs[r].f = Some(dumps(loads(parameters_str.val).val))
          ELSE runs[r].f = None
    /\ Call("format_parameters", FALSE) \in {calls[i] : i \in DOMAIN calls} =>
          runs = <<>> /\ CallsOf("execute_notebook") = {}

\* the executor ran with a parameters file whose text differs from the raw PARAMETERS
C14_Witness ==
    /\ Done
    /\ Len(runs) = 1
    /\ runs[1].f.set
    /\ runs[1].f.val # parameters_str.val
    /\ param_file = "deleted"

\* the exact-match rule with both sides lower-cased
ExactMatchAnyCase(k) == Contains(Lower(k), Lower(PYTHON \o python_version))

\* C15 (as claimed): a kernel whose lower-cased name contains the lower-cased
\* "python"+version satisfies the exact-match rule, whatever the case of the
\* requested version, so the first such kernel of the registry is returned;
\* a kernel whose lower-cased name contains "python" satisfies the fallback rule.
C15_CaseInsensitiveMatch ==
    pc = "resolved" =>
        /\ (\E i \in DOMAIN kernels : ExactMatchAnyCase(kernels[i])) =>
              FirstMatch(ExactMatchAnyCase)
        /\ (\E i \in DOMAIN kernels : FallbackMatch(kernels[i])) => kernel_name.set

\* how far main has got
PcRank ==
    CASE pc = "start" -> 0
      [] pc = "mkdtemp" -> 1
      [] pc = "download" -> 2
      [] pc = "get_kernel" -> 3
      [] pc = "format" -> 4
      [] pc = "execute" -> 5
      [] pc = "notify_success" -> 6
      [] pc = "cleanup" -> 7
      [] pc = "except" -> 8
      [] pc = "done" -> 9

\* main has no loop: every step moves it forward, so a job whose blocking
\* calls all return reaches the terminal state within nine steps
EveryStepAdvances == [][PcRank' > PcRank]_vars

\* the outcomes the job has announced: the success line of line 145, an
\* "Error: ..." diagnostic of line 112 or 150
Outcomes ==
    {"success" : i \in {k \in DOMAIN printed : printed[k].msg = SuccessMsg /\ printed[k].prefix = ""}}
    \cup {"failure" : i \in {k \in DOMAIN printed : printed[k].prefix = "Error: "}}

\* C16 (as claimed): a job that has reached its terminal state has produced
\* exactly one outcome, success or failure, never both and never none.
C16_SingleOutcome == Done => Cardinality(Outcomes) = 1

\* C17 (as claimed): a "success" notification goes with exit status 0, a
\* "failed" notification with exit status 1, and no job posts both.
C17_StatusAgreesWithExit ==
    Done => /\ \A p \in DOMAIN posts :
                 /\ posts[p].json.status = "success" => exit_code = 0
                 /\ posts[p].json.status = "failed" => exit_code = 1
            /\ \A p, q \in DOMAIN posts : posts[p].json.status = posts[q].json.status

\* C18: an empty NOTEBOOK takes the missing-source path (no workspace, no
\* download, exit status 1); an empty PARAMETERS, though json.loads rejects
\* the empty text, never reaches format_parameters and the job succeeds when
\* its steps do; an empty WEBHOOK makes no POST; an empty WEBHOOK_SECRET
\* gives POSTs without Authorization header.
C18_EmptyIsAbsent ==
    /\ env.NOTEBOOK = Some(<<>>) =>
          /\ temp_dir = "none"
          /\ CallsOf("download_notebook") = {}
          /\ runs = <<>>
          /\ Done => exit_code = 1 /\ calls = <<Call("send_webhook", TRUE)>>
    /\ env.PARAMETERS = Some(<<>>) =>
          /\ ~format_parameters(<<>>).ok
          /\ CallsOf("format_parameters") = {}
          /\ \A r \in DOMAIN runs : runs[r].f = None
          /\ (Done /\ Succeeded("execute_notebook") /\ Succeeded("cleanup")) => exit_code = 0
    /\ env.WEBHOOK = Some(<<>>) => posts = <<>>
    /\ env.WEBHOOK_SECRET = Some(<<>>) =>
          \A p \in DOMAIN posts : posts[p].headers.Authorization = None

\* a job with empty PARAMETERS and empty WEBHOOK_SECRET succeeded and posted
C18_Witness ==
    /\ Done
    /\ env.PARAMETERS = Some(<<>>)
    /\ env.WEBHOOK_SECRET = Some(<<>>)
    /\ exit_code = 0
    /\ Len(posts) = 1
    /\ Len(runs) = 1

====
